---- MODULE Spec2Model ----
(***************************************************************************)
(* wisec_analyzer.core._analyze_events as a state machine.                 *)
(*                                                                         *)
(* The function's arguments (packets, bin_size, threshold) are fixed by    *)
(* Init; the actions are the function's loops and returns:                 *)
(*   ReadPacket      one iteration of "for pkt in packets"   (l. 27-60)    *)
(*   AfterLoop       the two early returns                   (l. 62-89)    *)
(*   AggregateEvent  one iteration of the zip loop           (l. 93-99)    *)
(*   BuildBins       bins, sort, alerts, return              (l. 101-131)  *)
(* and analyze_directory (l. 243-286) as the loop that calls it per file:  *)
(* OpenFile, WriteReports, Propagate, EndBatch.                            *)
(*                                                                         *)
(* Timestamps and bin sizes are whole seconds, on which Python's float     *)
(* arithmetic is exact.  A bin is the tuple of l. 114 without its t_iso    *)
(* rendering; top is the list of (mac, count) pairs that l. 108-110 joins  *)
(* into one string.                                                        *)
(***************************************************************************)
EXTENDS Integers, Sequences, FiniteSets, TLC

\* ------------------------------------------------------------ bounds
MaxFrames == 2
MaxTally == 3
MaxBurst == 5
MaxTime == 2
MaxBin == 2
MaxThreshold == 3
MaxFiles == 3

\* ------------------------------------------------------------ program constants
DefaultBin == 1
DefaultThreshold == 50
TopN == 3

\* Python's None for an address; "if src_mac:" is false for it.
NoAddr == "None"
\* An optional value: <<>> is None, <<v>> is v.
None == <<>>
Some(v) == <<v>>

\* ------------------------------------------------------------ frames
\* What _analyze_events reads of a packet: pkt.time, haslayer(Dot11),
\* Dot11.type, Dot11.subtype, Dot11.addr2, haslayer(EAPOL).
Deauth == [dot11 |-> TRUE, type |-> 0, subtype |-> 12, eapol |-> FALSE]
Disassoc == [dot11 |-> TRUE, type |-> 0, subtype |-> 10, eapol |-> FALSE]
EapolData == [dot11 |-> TRUE, type |-> 2, subtype |-> 8, eapol |-> TRUE]
Beacon == [dot11 |-> TRUE, type |-> 0, subtype |-> 8, eapol |-> FALSE]

Frames(shapes, times, addrs) ==
    { [time |-> t, dot11 |-> s.dot11, type |-> s.type, subtype |-> s.subtype,
       eapol |-> s.eapol, addr2 |-> a] : s \in shapes, t \in times, a \in addrs }

Traces(F, n) == UNION { [1..m -> F] : m \in 0..n }

\* ------------------------------------------------------------ classification
IsDeauth(pkt) == pkt.dot11 /\ pkt.type = 0 /\ pkt.subtype = 12
IsDisassoc(pkt) == pkt.dot11 /\ pkt.type = 0 /\ pkt.subtype = 10
IsEapol(pkt) == pkt.eapol
SrcMac(pkt) == IF pkt.dot11 THEN pkt.addr2 ELSE NoAddr
B2N(b) == IF b THEN 1 ELSE 0
\* how many times the loop body appends pkt's timestamp to event_times
EventCount(pkt) == B2N(IsDeauth(pkt)) + B2N(IsDisassoc(pkt)) + B2N(IsEapol(pkt))
Repeat(x, n) == [j \in 1..n |-> x]

VARIABLES packets, bin_size, threshold,
          pc, i, total_deauth, total_disassoc, total_eapol,
          event_times, event_srcs, start_time, end_time,
          k, bin_counters, stats, error,
          pcap_files, f, reports

vars == <<packets, bin_size, threshold, pc, i, total_deauth, total_disassoc,
          total_eapol, event_times, event_srcs, start_time, end_time,
          k, bin_counters, stats, error, pcap_files, f, reports>>

inputs == <<packets, bin_size, threshold>>

\* analyze_directory's files, its position among them and what it has written
batch == <<pcap_files, f, reports>>

\* the locals of _analyze_events as l. 16-25 set them
Fresh ==
    /\ i = 1
    /\ total_deauth = 0
    /\ total_disassoc = 0
    /\ total_eapol = 0
    /\ event_times = <<>>
    /\ event_srcs = <<>>
    /\ start_time = None
    /\ end_time = None
    /\ k = 1
    /\ bin_counters = <<>>
    /\ stats = None

InitWith(traces, sizes, thresholds) ==
    /\ packets \in traces
    /\ bin_size \in sizes
    /\ threshold \in thresholds
    /\ pc = "read"
    /\ Fresh
    /\ error = None
    /\ pcap_files = <<>>
    /\ f = 0
    /\ reports = <<>>

\* for pkt in packets: ... (l. 27-60)
ReadPacket ==
    /\ pc = "read"
    /\ i <= Len(packets)
    /\ LET pkt == packets[i]
           ts == pkt.time
           n == EventCount(pkt)
       IN /\ start_time' = IF start_time = None THEN Some(ts) ELSE start_time
          /\ end_time' = Some(ts)
          /\ total_deauth' = total_deauth + B2N(IsDeauth(pkt))
          /\ total_disassoc' = total_disassoc + B2N(IsDisassoc(pkt))
          /\ total_eapol' = total_eapol + B2N(IsEapol(pkt))
          /\ event_times' = event_times \o Repeat(ts, n)
          /\ event_srcs' = IF SrcMac(pkt) # NoAddr
                           THEN event_srcs \o Repeat(SrcMac(pkt), n)
                           ELSE event_srcs
    /\ i' = i + 1
    /\ UNCHANGED <<inputs, batch, pc, k, bin_counters, stats, error>>

Summary(bins, alerts) ==
    [duration |-> IF start_time = None THEN 0 ELSE end_time[1] - start_time[1],
     total_packets |-> Len(packets),
     total_deauth |-> total_deauth,
     total_disassoc |-> total_disassoc,
     total_eapol |-> total_eapol,
     bins |-> bins,
     alerts |-> alerts,
     start_time |-> start_time,
     end_time |-> end_time]

\* the loop is over; the early returns of l. 62-89
AfterLoop ==
    /\ pc = "read"
    /\ i > Len(packets)
    /\ IF start_time = None \/ end_time = None \/ event_times = <<>>
       THEN pc' = "done" /\ stats' = Some(Summary(<<>>, <<>>))
       ELSE pc' = "aggregate" /\ stats' = stats
    /\ UNCHANGED <<inputs, batch, i, total_deauth, total_disassoc, total_eapol,
                   event_times, event_srcs, start_time, end_time, k,
                   bin_counters, error>>

\* ------------------------------------------------------------ aggregation
Abs(x) == IF x < 0 THEN -x ELSE x
\* int(a / b) for b # 0: Python's int() truncates toward zero
IntTrunc(a, b) ==
    LET q == Abs(a) \div Abs(b)
    IN IF (a < 0) # (b < 0) THEN -q ELSE q

\* idx = int((ts - start_time) / bin_size)   (l. 94)
BinIndex(ts, start, w) == IntTrunc(ts - start, w)

\* t_epoch = start_time + idx * bin_size     (l. 103)
BinStart(idx, start, w) == start + idx * w

\* a faulty Counter update: "= 1" for "+= 1", a source seen again stays at 1
CounterIncLost(counter, src) ==
    IF \E p \in 1..Len(counter) : counter[p][1] = src
    THEN counter
    ELSE Append(counter, <<src, 1>>)

\* Counter()[src] += 1: a Counter keeps its keys in insertion order
CounterInc(counter, src) ==
    IF \E p \in 1..Len(counter) : counter[p][1] = src
    THEN [p \in 1..Len(counter) |->
            IF counter[p][1] = src THEN <<src, counter[p][2] + 1>> ELSE counter[p]]
    ELSE Append(counter, <<src, 1>>)

\* the body of the zip loop after idx is known (l. 95-99); bin_counters is a
\* dict, which keeps its keys in insertion order
BinAdd(counters, idx, src) ==
    LET known == \E p \in 1..Len(counters) : counters[p].idx = idx
        cs == IF known THEN counters
              ELSE Append(counters, [idx |-> idx, count |-> 0, src_counter |-> <<>>])
    IN [p \in 1..Len(cs) |->
          IF cs[p].idx = idx
          THEN [idx |-> idx,
                count |-> cs[p].count + 1,
                src_counter |-> IF src # NoAddr
                                THEN CounterInc(cs[p].src_counter, src)
                                ELSE cs[p].src_counter]
          ELSE cs[p]]

Min(a, b) == IF a <= b THEN a ELSE b
\* zip() stops at the shorter of its two lists
ZipLen == Min(Len(event_times), Len(event_srcs))

\* for ts, src in zip(event_times, event_srcs): ... (l. 93-99)
AggregateEvent ==
    /\ pc = "aggregate"
    /\ k <= ZipLen
    /\ IF bin_size = 0
       THEN /\ pc' = "raised"
            /\ error' = Some("ZeroDivisionError")
            /\ UNCHANGED <<k, bin_counters>>
       ELSE /\ bin_counters' = BinAdd(bin_counters,
                                      BinIndex(event_times[k], start_time[1], bin_size),
                                      event_srcs[k])
            /\ k' = k + 1
            /\ UNCHANGED <<pc, error>>
    /\ UNCHANGED <<inputs, batch, i, total_deauth, total_disassoc, total_eapol,
                   event_times, event_srcs, start_time, end_time, stats>>

\* ------------------------------------------------------------ bins
\* sorted(..., reverse=True) on the count is stable: x goes after every entry
\* whose count is not smaller
InsertDesc(s, x) ==
    LET p == Cardinality({j \in 1..Len(s) : s[j][2] >= x[2]})
    IN SubSeq(s, 1, p) \o <<x>> \o SubSeq(s, p + 1, Len(s))

RECURSIVE SortDesc(_)
SortDesc(s) ==
    IF s = <<>> THEN <<>>
    ELSE InsertDesc(SortDesc(SubSeq(s, 1, Len(s) - 1)), s[Len(s)])

\* a faulty top list: the first n sources seen, not the n most frequent
MostCommonUnsorted(counter, n) == SubSeq(counter, 1, Min(n, Len(counter)))

\* Counter.most_common(n): the n largest counts, equal counts in insertion order
MostCommon(counter, n) == SubSeq(SortDesc(counter), 1, Min(n, Len(counter)))

\* a faulty alert test: "count > threshold" for "count >= threshold"
MakeBinStrict(c, start, w, thr) ==
    [t_epoch |-> BinStart(c.idx, start, w),
     count |-> c.count,
     unique_srcs |-> Len(c.src_counter),
     top |-> MostCommon(c.src_counter, TopN),
     alert |-> c.count > thr]

\* the tuple appended at l. 114
MakeBin(c, start, w, thr) ==
    [t_epoch |-> BinStart(c.idx, start, w),
     count |-> c.count,
     unique_srcs |-> Len(c.src_counter),
     top |-> MostCommon(c.src_counter, TopN),
     alert |-> c.count >= thr]

\* list.sort(key=t_epoch) is stable: x goes after every bin that is not later
InsertBin(s, x) ==
    LET p == Cardinality({j \in 1..Len(s) : s[j].t_epoch <= x.t_epoch})
    IN SubSeq(s, 1, p) \o <<x>> \o SubSeq(s, p + 1, Len(s))

\* a faulty build: the bins left in the order the dict holds them
SortBinsNone(s) == s

RECURSIVE SortBins(_)
SortBins(s) ==
    IF s = <<>> THEN <<>>
    ELSE InsertBin(SortBins(SubSeq(s, 1, Len(s) - 1)), s[Len(s)])

\* alerts = [b for b in bins if b[5]]   (l. 119)
RECURSIVE Alerts(_)
Alerts(bins) ==
    IF bins = <<>> THEN <<>>
    ELSE LET rest == Alerts(Tail(bins))
         IN IF Head(bins).alert THEN <<Head(bins)>> \o rest ELSE rest

\* bins = [...]; bins.sort(...); alerts = [...]; return {...}   (l. 101-131)
BuildBins ==
    /\ pc = "aggregate"
    /\ k > ZipLen
    /\ LET bins == SortBins([p \in 1..Len(bin_counters) |->
                        MakeBin(bin_counters[p], start_time[1], bin_size, threshold)])
       IN stats' = Some(Summary(bins, Alerts(bins)))
    /\ pc' = "done"
    /\ UNCHANGED <<inputs, batch, i, total_deauth, total_disassoc, total_eapol,
                   event_times, event_srcs, start_time, end_time, k,
                   bin_counters, error>>

Next == ReadPacket \/ AfterLoop \/ AggregateEvent \/ BuildBins

\* ------------------------------------------------------------ analyze_directory
\* a capture file rdpcap cannot read
Unreadable == [readable |-> FALSE, packets |-> <<>>]
PcapFile(trace) == [readable |-> TRUE, packets |-> trace]

\* for name in pcap_files: packets = rdpcap(pcap_path);
\* stats = _analyze_events(packets, ...)   (l. 267-277): rdpcap's exception is
\* not caught and ends analyze_directory
OpenFile ==
    /\ pc = "idle"
    /\ f < Len(pcap_files)
    /\ f' = f + 1
    /\ IF pcap_files[f + 1].readable
       THEN /\ packets' = pcap_files[f + 1].packets
            /\ pc' = "read"
            /\ i' = 1
            /\ total_deauth' = 0
            /\ total_disassoc' = 0
            /\ total_eapol' = 0
            /\ event_times' = <<>>
            /\ event_srcs' = <<>>
            /\ start_time' = None
            /\ end_time' = None
            /\ k' = 1
            /\ bin_counters' = <<>>
            /\ stats' = None
            /\ error' = error
       ELSE /\ pc' = "aborted"
            /\ error' = Some("rdpcap")
            /\ UNCHANGED <<packets, i, total_deauth, total_disassoc, total_eapol,
                           event_times, event_srcs, start_time, end_time, k,
                           bin_counters, stats>>
    /\ UNCHANGED <<bin_size, threshold, pcap_files, reports>>

\* _write_csv, _write_report, _plot_bins for the file just analyzed (l. 279-286)
WriteReports ==
    /\ pc = "done"
    /\ f > 0
    /\ reports' = Append(reports, [file |-> f, stats |-> stats[1]])
    /\ pc' = "idle"
    /\ UNCHANGED <<inputs, i, total_deauth, total_disassoc, total_eapol,
                   event_times, event_srcs, start_time, end_time, k,
                   bin_counters, stats, error, pcap_files, f>>

\* an exception of _analyze_events is not caught either (l. 277)
Propagate ==
    /\ pc = "raised"
    /\ f > 0
    /\ pc' = "aborted"
    /\ UNCHANGED <<inputs, i, total_deauth, total_disassoc, total_eapol,
                   event_times, event_srcs, start_time, end_time, k,
                   bin_counters, stats, error, batch>>

\* no file, or no file left: analyze_directory returns (l. 262-264, 267)
EndBatch ==
    /\ pc = "idle"
    /\ f = Len(pcap_files)
    /\ pc' = "batch_done"
    /\ UNCHANGED <<inputs, i, total_deauth, total_disassoc, total_eapol,
                   event_times, event_srcs, start_time, end_time, k,
                   bin_counters, stats, error, batch>>

NextBatch ==
    \/ OpenFile \/ ReadPacket \/ AfterLoop \/ AggregateEvent \/ BuildBins
    \/ WriteReports \/ Propagate \/ EndBatch

\* "1s", "5s", "1m" -> seconds: int() takes any integer, also 0 and negatives
ParseBinArg(n, unit) == IF unit = "m" THEN n * 60 ELSE n

\* ------------------------------------------------------------ specifications
Macs == {"aa", "bb", "cc", "dd", "ee"}

\* short traces of any mix of frames, any --bin argument, the default threshold
Init == InitWith(Traces(Frames({Deauth, Disassoc, EapolData, Beacon}, 0..MaxTime,
                               {NoAddr, "aa", "bb"}), MaxFrames),
                 {ParseBinArg(n, u) : n \in -1..MaxBin, u \in {"s", ""}},
                 {DefaultThreshold})

Spec == Init /\ [][Next]_vars

\* bursts of deauthentication frames of one station, any bin size and threshold
InitAlert == InitWith(Traces(Frames({Deauth}, 0..MaxTime, {"aa"}), MaxBurst),
                      1..MaxBin, -1..MaxThreshold)

SpecAlert == InitAlert /\ [][Next]_vars

\* deauthentication and EAPOL frames with and without a source address, early
\* and late in the capture
InitTally == InitWith(Traces(Frames({Deauth, EapolData}, {0, MaxTime},
                                    {NoAddr, "aa", "bb"}), MaxTally),
                      1..MaxBin, {DefaultThreshold})

SpecTally == InitTally /\ [][Next]_vars

\* bursts of deauthentication frames of many stations at one instant, some
\* without a source address
InitTop == InitWith(Traces(Frames({Deauth}, {0}, Macs \cup {NoAddr}), MaxBurst),
                    {DefaultBin}, {DefaultThreshold})

SpecTop == InitTop /\ [][Next]_vars

\* a directory of a few capture files, each unreadable or a trace of at most one
\* frame
InitBatch ==
    /\ pcap_files \in Traces({Unreadable} \cup
                              {PcapFile(t) : t \in Traces(Frames({Deauth, Beacon}, {0},
                                                                 {"aa"}), 1)},
                              MaxFiles)
    /\ bin_size \in {0, DefaultBin}
    /\ threshold = DefaultThreshold
    /\ packets = <<>>
    /\ pc = "idle"
    /\ Fresh
    /\ error = None
    /\ f = 0
    /\ reports = <<>>

SpecBatch == InitBatch /\ [][NextBatch]_vars

\* ------------------------------------------------------------ properties
Done == pc = "done"
Bins == stats[1].bins
BinSet == {Bins[p] : p \in 1..Len(Bins)}

\* the classified events of a trace, each with its own timestamp and source
RECURSIVE EventsOf(_)
EventsOf(ps) ==
    IF ps = <<>> THEN <<>>
    ELSE Repeat([ts |-> Head(ps).time, src |-> SrcMac(Head(ps))], EventCount(Head(ps)))
         \o EventsOf(Tail(ps))

Events == EventsOf(packets)
EventSet == {Events[j] : j \in 1..Len(Events)}

\* the start of the bin the code puts timestamp t in
CodeBucket(t) == BinStart(BinIndex(t, start_time[1], bin_size), start_time[1], bin_size)

\* bucket_start = floor(timestamp / bin_width) * bin_width
FloorBucket(t, w) == (t \div w) * w

RECURSIVE SumSeq(_)
SumSeq(s) == IF s = <<>> THEN 0 ELSE Head(s) + SumSeq(Tail(s))

\* C1: every emitted bin has alert = TRUE iff its count >= threshold, and with
\* threshold <= 0 every emitted bin alerts.
C1_AlertIffThreshold ==
    Done => \A b \in BinSet :
                /\ b.alert <=> (b.count >= threshold)
                /\ threshold <= 0 => b.alert

C1_Witness ==
    /\ Done
    /\ \E b \in BinSet : b.alert /\ b.count = threshold
    /\ \E b \in BinSet : ~b.alert

\* attack_detected is bool(stats["alerts"])   (l. 155)
AttackDetected(st) == st.alerts # <<>>

\* first_attack_ts and last_attack_ts of FileSummary: the start of the first and
\* of the last entry of the alerts list, None without alerts
FirstAttackTs(st) == IF st.alerts = <<>> THEN None ELSE Some(st.alerts[1].t_epoch)
LastAttackTs(st) ==
    IF st.alerts = <<>> THEN None ELSE Some(st.alerts[Len(st.alerts)].t_epoch)

AlertStarts == {b.t_epoch : b \in {c \in BinSet : c.alert}}

Binned == {event_times[j] : j \in 1..(k - 1)}

\* C3: an event with timestamp t lands in the bin that starts at
\* floor(t / bin_width) * bin_width, whatever the first frame's timestamp.
C3_BucketIsFloor ==
    bin_size > 0 => \A t \in Binned : CodeBucket(t) = FloorBucket(t, bin_size)

\* C4: for w > 0 and frames in any timestamp order, an event with timestamp t
\* counted in the bin that starts at s satisfies s <= t < s + w.
C4_EventWithinBin ==
    bin_size > 0 =>
        \A t \in Binned : CodeBucket(t) <= t /\ t < CodeBucket(t) + bin_size

\* C5: the emitted bins are exactly the bucket starts some classified event
\* falls in, each once and with a count of at least one, strictly ascending.
C5_OneBinPerBucket ==
    (Done /\ bin_size > 0) =>
        /\ {b.t_epoch : b \in BinSet} = {CodeBucket(e.ts) : e \in EventSet}
        /\ \A p \in 1..(Len(Bins) - 1) : Bins[p].t_epoch < Bins[p + 1].t_epoch
        /\ \A b \in BinSet : b.count >= 1

\* C6: every classified event adds one to the count of a bin, with or without
\* a source address: the counts of the emitted bins add up to
\* total_deauth + total_disassoc + total_eapol.
C6_CountsSumToTotals ==
    (Done /\ bin_size > 0) =>
        SumSeq([p \in 1..Len(Bins) |-> Bins[p].count])
            = total_deauth + total_disassoc + total_eapol

\* C7: unique_sources of an emitted bin is the number of distinct known
\* sources among the classified events whose own timestamp falls in that bin.
C7_UniqueSourcesOfOwnBin ==
    (Done /\ bin_size > 0) =>
        \A b \in BinSet :
            b.unique_srcs =
                Cardinality({e.src : e \in {x \in EventSet :
                                 x.src # NoAddr /\ CodeBucket(x.ts) = b.t_epoch}})

Tally(c) == SumSeq([q \in 1..Len(c.src_counter) |-> c.src_counter[q][2]])

\* C8: at every point of the aggregation every bin's count is the sum of its
\* per-source tally and its number of sources is at most its count; the
\* emitted bin carries that count and that number of sources.
C8_CountIsTallySum ==
    /\ \A p \in 1..Len(bin_counters) :
          /\ bin_counters[p].count = Tally(bin_counters[p])
          /\ Len(bin_counters[p].src_counter) <= bin_counters[p].count
    /\ Done =>
          /\ \A b \in BinSet : 0 <= b.unique_srcs /\ b.unique_srcs <= b.count
          /\ \A p \in 1..Len(bin_counters) :
                \E b \in BinSet :
                    /\ b.t_epoch = BinStart(bin_counters[p].idx, start_time[1], bin_size)
                    /\ b.count = Tally(bin_counters[p])
                    /\ b.unique_srcs = Len(bin_counters[p].src_counter)

\* a bin of three events of two sources, emitted
C8_Witness ==
    /\ Done
    /\ Len(bin_counters) = 1
    /\ bin_counters[1].count = 3
    /\ Len(bin_counters[1].src_counter) = 2

\* the events the zip loop put in the bin of index idx with source m
Hits(m, idx) ==
    {j \in 1..ZipLen : event_srcs[j] = m
                       /\ BinIndex(event_times[j], start_time[1], bin_size) = idx}

FirstHit(m, idx) == CHOOSE j \in Hits(m, idx) : \A h \in Hits(m, idx) : j <= h

\* source x ranks before source y in the bin of index idx: a larger count, or
\* the same count and an earlier first occurrence
RanksBefore(x, y, idx) ==
    \/ Cardinality(Hits(x, idx)) > Cardinality(Hits(y, idx))
    \/ /\ Cardinality(Hits(x, idx)) = Cardinality(Hits(y, idx))
       /\ FirstHit(x, idx) < FirstHit(y, idx)

\* top is the first n sources of the bin of index idx in rank order, each
\* with its count
IsTopOf(top, idx, n) ==
    LET srcs == {m \in Macs : Hits(m, idx) # {}}
        listed == {top[q][1] : q \in 1..Len(top)}
    IN /\ Len(top) = Min(n, Cardinality(srcs))
       /\ \A q \in 1..Len(top) :
             top[q][1] \in srcs /\ top[q][2] = Cardinality(Hits(top[q][1], idx))
       /\ \A q \in 1..Len(top) : \A r \in (q + 1)..Len(top) :
             RanksBefore(top[q][1], top[r][1], idx)
       /\ \A m \in srcs \ listed : \A q \in 1..Len(top) :
             RanksBefore(top[q][1], m, idx)

TopSourcesAre(n) ==
    Done => \A p \in 1..Len(bin_counters) :
                \E b \in BinSet :
                    /\ b.t_epoch = BinStart(bin_counters[p].idx, start_time[1], bin_size)
                    /\ Len(b.top) <= n
                    /\ IsTopOf(b.top, bin_counters[p].idx, n)

\* C9 as stated: top_sources of every emitted bin is the top 5 of the bin's
\* tally, descending by count, equal counts by first occurrence in the bin.
C9_TopFive == TopSourcesAre(5)

\* C9 as amended: top_sources of every emitted bin is the top 3 of the bin's
\* tally, descending by count, equal counts by first occurrence in the bin,
\* each source with the count of the tally.
C9_TopThree == TopSourcesAre(3)

\* five sources in one bin; the most frequent was not the first seen, and two
\* listed sources tie
C9_Witness ==
    /\ Done
    /\ Len(bin_counters) = 1
    /\ Len(bin_counters[1].src_counter) >= 4
    /\ Bins[1].top[1][1] # bin_counters[1].src_counter[1][1]
    /\ Bins[1].top[1][2] > Bins[1].top[2][2]
    /\ Bins[1].top[2][2] = Bins[1].top[3][2]

\* C10: with bin_size <= 0 the analysis fails with InvalidConfiguration before
\* any event is put in a bin, and returns no summary, whatever the trace.
C10_InvalidConfiguration ==
    bin_size <= 0 =>
        /\ bin_counters = <<>>
        /\ stats = None
        /\ pc \in {"done", "raised"} => error = Some("InvalidConfiguration")

FrameTimes == {packets[p].time : p \in 1..Len(packets)}
Latest == CHOOSE t \in FrameTimes : \A u \in FrameTimes : u <= t
Earliest == CHOOSE t \in FrameTimes : \A u \in FrameTimes : t <= u

\* C12: duration is the greatest minus the least timestamp over all frames, in
\* whatever order they arrive, so never negative; a trace without frames gives
\* duration 0, total_frames 0, no bins and attack_detected false.
C12_DurationIsSpan ==
    Done =>
        /\ packets # <<>> => stats[1].duration = Latest - Earliest
        /\ stats[1].duration >= 0
        /\ packets = <<>> =>
              /\ stats[1].duration = 0
              /\ stats[1].total_packets = 0
              /\ stats[1].bins = <<>>
              /\ ~AttackDetected(stats[1])

BatchOver == pc \in {"batch_done", "aborted"}
ReadableFiles == {j \in 1..Len(pcap_files) : pcap_files[j].readable}
DeauthFrames(trace) == Cardinality({p \in 1..Len(trace) : IsDeauth(trace[p])})

\* C11: an unreadable trace does not end the batch: every readable trace,
\* also one after the unreadable one, gets its summary, in the order given, and
\* the totals are those of the readable traces.
C11_BatchIsolatesFailures ==
    (BatchOver /\ bin_size > 0) =>
        /\ pc = "batch_done"
        /\ {reports[r].file : r \in 1..Len(reports)} = ReadableFiles
        /\ \A r \in 1..(Len(reports) - 1) : reports[r].file < reports[r + 1].file
        /\ SumSeq([r \in 1..Len(reports) |-> reports[r].stats.total_deauth])
              = SumSeq([j \in 1..Len(pcap_files) |-> DeauthFrames(pcap_files[j].packets)])
====
